---- MODULE Spec2Model ----
(***************************************************************************)
(* Alert -> Incident lifecycle engine of the fire-service dispatch         *)
(* backend (rn-auth-backend): station guard, alert triage, incident        *)
(* materialization, incident status machine and unit duty scheduling.      *)
(* Documents of the backing store are modelled as functions from ids to    *)
(* records; every request handler is one action unless a specification     *)
(* splits it at its awaits to expose interleavings.                        *)
(***************************************************************************)
EXTENDS Integers, Sequences, FiniteSets, TLC

\* ------------------------------------------------------------------ bounds
MaxAlerts == 2
MaxIncidents == 2
MaxTime == 34
MaxTasks == 2
MaxSteps == 4
MaxUnitSteps == 6

MaxPublishSteps == 3

\* ------------------------------------------------------- reference values
Null == "null"
Absent == "absent"
NoTime == -1

Stations == {"s1", "s2", "s3"}
MissingStation == "s9"
Departments == {"d1", "d2", "d3"}
Units == {"u1", "u2", "u3"}
AlertIds == 1..MaxAlerts
IncidentIds == 1..MaxIncidents
Tasks == 1..MaxTasks

\* ---------------------------------------------------------------- Station
\* Paths declared by the Station schema.  Mongoose schemas are strict: a
\* path that is not declared is dropped from every update and has no getter
\* on a loaded document (reading it yields undefined).
StationSchemaPaths ==
    {"name", "call_sign", "location", "location_url", "lat", "lng",
     "region", "phone_number", "placeId"}

\* stationDoc.status on a document loaded through the Station model.
StationGetStatus(doc) ==
    IF "status" \in StationSchemaPaths THEN doc.status ELSE Null

\* Truthiness of stationDoc.<flag> on a document loaded through the model
\* (undefined is falsy).
StationGetFlag(doc, path) ==
    IF path \in StationSchemaPaths THEN doc[path] ELSE FALSE

\* Station.findByIdAndUpdate(id, {path: value}).
StationFindByIdAndUpdate(st, id, path, value) ==
    IF id \in DOMAIN st /\ path \in StationSchemaPaths
    THEN [st EXCEPT ![id][path] = value]
    ELSE st

\* Reference data of the stations (name, placeId, coordinates).
StationName ==
    [s \in Stations |-> CASE s = "s1" -> "Accra Central" [] s = "s2" -> "Tema" [] s = "s3" -> "Kumasi"]
StationPlaceId == [s \in Stations |-> CASE s = "s1" -> "p1" [] s = "s2" -> "p2" [] s = "s3" -> "p3"]
StationCoords == [s \in Stations |-> CASE s = "s1" -> "c1" [] s = "s2" -> "c2" [] s = "s3" -> "c3"]

\* new RegExp(pattern, 'i') tested against a station name: case-insensitive
\* substring match, tabulated over the names and patterns of the model.
NameRegexMatches(pattern, name) ==
    <<pattern, name>> \in {<<"accra", "Accra Central">>, <<"tema", "Tema">>, <<"KUM", "Kumasi">>}

\* ------------------------------------------------------------- Department
DepartmentName ==
    [d \in Departments |->
        CASE d = "d1" -> "Operations"
          [] d = "d2" -> "Field Operations"
          [] d = "d3" -> "OPERATIONS"]
DepartmentStation ==
    [d \in Departments |-> IF d = "d1" THEN "s1" ELSE "s2"]

\* String.prototype.toLowerCase over the department names of the model.
ToLowerCase(name) ==
    CASE name = "Operations" -> "operations"
      [] name = "OPERATIONS" -> "operations"
      [] name = "Field Operations" -> "field operations"
      [] OTHER -> name

\* name: { $regex: /operations/i }
MatchesOperationsRegex(name) ==
    ToLowerCase(name) \in {"operations", "field operations"}

\* ---------------------------------------------------- incident status sets
IncidentStatusEnum ==
    {"pending", "active", "dispatched", "on_scene", "resolved", "closed", "referred"}
GuardLiveStatuses == {"pending", "active", "dispatched", "en-route", "on-scene"}
FlagLiveStatuses == {"pending", "active", "dispatched", "on_scene"}
MaterializeLiveStatuses == {"active", "dispatched", "on_scene"}
NotifyLiveStatusesOfFlagUpdate == {"active", "dispatched", "on_scene"}
NotifyLiveStatuses == {"pending", "active", "dispatched", "on_scene"}
OpenAlertStatuses == {"active", "pending"}

\* ------------------------------------------------------------------ state
VARIABLES
    station,    \* Station collection: id -> raw stored document
    alerts,     \* EmergencyAlert collection: id -> document or NoDoc
    incidents,  \* Incident collection: id -> document or NoDoc
    units,      \* Unit collection: id -> document
    now,        \* wall clock, in hours since day 0, 00:00
    resp,       \* response and published events of the last request
    tasks,      \* in-flight requests of the interleaved specifications
    steps,      \* number of handler steps taken so far
    io          \* the Socket.IO server as the latest request found it

vars == <<station, alerts, incidents, units, now, resp, tasks, steps, io>>

NoDoc == [exists |-> FALSE]

StoredAlerts == {a \in AlertIds : alerts[a].exists}
StoredIncidents == {i \in IncidentIds : incidents[i].exists}

\* Documents as the EmergencyAlert schema creates them.
AlertDefaults(stationId) ==
    [exists |-> TRUE, station |-> stationId, status |-> "active",
     dispatched |-> FALSE, declined |-> FALSE, referred |-> FALSE,
     dispatchedAt |-> NoTime, declinedAt |-> NoTime, referredAt |-> NoTime,
     declineReason |-> Null, referReason |-> Null, referredToStation |-> Null,
     unit |-> Null, department |-> Null]

AlertStatusEnum == {"active", "pending", "accepted", "rejected", "referred"}

\* The order in which Unit.find returns the units (insertion order).
UnitOrder == [u \in Units |-> CASE u = "u1" -> 1 [] u = "u2" -> 2 [] u = "u3" -> 3]

\* Documents as the Unit schema creates them.
UnitDefaults(dept) ==
    [department |-> dept, isActive |-> FALSE, activatedAt |-> NoTime]

UnitDepartment ==
    [u \in Units |-> CASE u = "u1" -> "d1" [] u = "u2" -> "d1" [] u = "u3" -> "d3"]

\* The outcome of a request as its caller and the subscribers see it: the
\* HTTP status and message, and the events published; for a creation also
\* the form in which the request named its station and the station named.
NoResp ==
    [op |-> "none", target |-> 0, code |-> 0, message |-> "none", events |-> {},
     form |-> "none", sid |-> Null, unit |-> Null, named |-> Null, time |-> NoTime, list |-> {},
     logged |-> {}, status |-> Null]

\* The publish boundary: `io` is the module variable of socketService.js,
\* null until initializeSocket has run; a server that is there may still
\* throw from emit.
IoStates == {"ok", "uninitialised", "throws"}

\* The emit* functions with an uncaught failure: what the request would
\* answer if the error of getIO() or emit reached its handler.
EmitUncaught(socket, code, events) ==
    [code |-> IF socket # "ok" /\ events # {} THEN 500 ELSE code,
     events |-> IF socket = "ok" THEN events ELSE {}]

\* The emit* functions: getIO() and the emits run inside try/catch, the catch
\* logs; the events reach the clients only when the server is there and emit
\* does not throw, and the request's answer is not touched.
Emit(socket, code, events) ==
    [code |-> code, events |-> IF socket = "ok" THEN events ELSE {}]

\* The answer of a request and the events it published, on the socket server
\* the request finds.
Response(op, target, code, message, events) ==
    [op |-> op, target |-> target, code |-> Emit(io', code, events).code, message |-> message,
     events |-> Emit(io', code, events).events,
     form |-> "none", sid |-> Null, unit |-> Null, named |-> Null, time |-> NoTime, list |-> {},
     logged |-> {}, status |-> Null]

\* The outcome of a unit request: the unit it is for and, where the handler
\* returns them, the on-duty unit it names (activeUnit), the time it carries
\* (nextDeactivationTime) and the units it lists (deactivatedUnits).
UnitResponse(op, unit, code, message, named, time, list) ==
    [Response(op, 0, code, message, {}) EXCEPT
        !.unit = unit, !.named = named, !.time = time, !.list = list]

\* Raw station documents: the commission status is reference data kept in
\* the store; the flags are absent until something stores them.
StationDocs ==
    [s \in Stations |->
        [status |-> IF s = "s3" THEN "out of commission" ELSE "in commission",
         hasActiveAlert |-> FALSE, hasActiveIncident |-> FALSE]]

\* ------------------------------------------------- createEmergencyAlert
\* The forms in which a request names its station: a string (a valid or an
\* invalid ObjectId) or an object carrying any of _id, placeId,
\* latitude/longitude, name.
StationInput(isString, idValid, id, oid, placeId, coords, name) ==
    [isString |-> isString, idValid |-> idValid, id |-> id, oid |-> oid,
     placeId |-> placeId, coords |-> coords, name |-> name]

StationInputs ==
    {StationInput(TRUE, TRUE, s, Null, Null, Null, Null) : s \in Stations \cup {MissingStation}}
    \cup {StationInput(TRUE, FALSE, "bad", Null, Null, Null, Null)}
    \cup {StationInput(FALSE, FALSE, Null, "s3", Null, Null, Null)}
    \cup {StationInput(FALSE, FALSE, Null, Null, p, Null, Null) : p \in {"p3", "pX"}}
    \cup {StationInput(FALSE, FALSE, Null, Null, "pX", "c3", Null)}
    \cup {StationInput(FALSE, FALSE, Null, Null, Null, "c3", Null)}
    \cup {StationInput(FALSE, FALSE, Null, Null, Null, Null, n) : n \in {"KUM", "zzz"}}

\* The form of a request's station: the first identifying field it carries.
FormOf(inp) ==
    IF inp.isString THEN "id"
    ELSE IF inp.oid # Null THEN "objectId"
    ELSE IF inp.placeId # Null THEN "placeId"
    ELSE IF inp.coords # Null THEN "coords"
    ELSE IF inp.name # Null THEN "name"
    ELSE "none"

\* Station.findOne({ placeId }) / ({ lat, lng }) / ({ name: regex }).
FindStationByPlaceId(p) ==
    IF \E s \in Stations : StationPlaceId[s] = p
    THEN CHOOSE s \in Stations : StationPlaceId[s] = p ELSE Null
FindStationByCoords(c) ==
    IF \E s \in Stations : StationCoords[s] = c
    THEN CHOOSE s \in Stations : StationCoords[s] = c ELSE Null
FindStationByName(n) ==
    IF \E s \in Stations : NameRegexMatches(n, StationName[s])
    THEN CHOOSE s \in Stations : NameRegexMatches(n, StationName[s]) ELSE Null

\* The station id the guard block works on (null when the form is not one
\* the block resolves).
GuardStationId(inp) ==
    IF inp.isString /\ inp.idValid THEN inp.id
    ELSE IF inp.oid # Null THEN inp.oid
    ELSE IF ~inp.isString /\ inp.placeId # Null THEN FindStationByPlaceId(inp.placeId)
    ELSE Null

\* Where the reporter id of a request is found: the User collection, the
\* FirePersonnel collection, or neither.
Reporters == {"User", "FirePersonnel", "none"}

Allow == [deny |-> FALSE, code |-> 0, message |-> "none"]
Deny(code, message) == [deny |-> TRUE, code |-> code, message |-> message]

\* The guard checks of createEmergencyAlertService on a resolved station id.
StationGuard(st, al, inc, sid) ==
    IF sid \notin DOMAIN st THEN Deny(404, "Station not found")
    ELSE IF StationGetStatus(st[sid]) = "out of commission"
    THEN Deny(400, "Cannot create alert: Station is out of commission")
    ELSE IF StationGetFlag(st[sid], "hasActiveIncident")
            /\ \E i \in IncidentIds :
                  inc[i].exists /\ inc[i].station = sid /\ inc[i].status \in GuardLiveStatuses
    THEN Deny(409, "Station is currently busy with an active incident")
    ELSE IF StationGetFlag(st[sid], "hasActiveAlert")
            /\ \E a \in AlertIds :
                  al[a].exists /\ al[a].station = sid /\ al[a].status \in OpenAlertStatuses
    THEN Deny(400, "Cannot create alert: Station already has an active alert")
    ELSE Allow

\* Station lookup for the forms the guard block did not resolve.
LateStationId(inp) ==
    IF inp.isString
    THEN [ok |-> FALSE, id |-> Null, code |-> 400, message |-> "Invalid station ID format"]
    ELSE LET byPlace == IF inp.placeId # Null THEN FindStationByPlaceId(inp.placeId) ELSE Null
             byCoords == IF byPlace = Null /\ inp.coords # Null
                         THEN FindStationByCoords(inp.coords) ELSE byPlace
             byName == IF byCoords = Null /\ inp.name # Null
                       THEN FindStationByName(inp.name) ELSE byCoords
         IN IF byName = Null
            THEN [ok |-> FALSE, id |-> Null, code |-> 404, message |-> "Station not found"]
            ELSE [ok |-> TRUE, id |-> byName, code |-> 0, message |-> "none"]

FreeAlertId == CHOOSE a \in AlertIds : ~alerts[a].exists /\ \A b \in AlertIds : b < a => alerts[b].exists
FreeIncidentId ==
    CHOOSE i \in IncidentIds : ~incidents[i].exists /\ \A j \in IncidentIds : j < i => incidents[j].exists

\* The outcome of createEmergencyAlertService on the current store.
CreateOutcome(inp, fieldsOk, reporter) ==
    LET gid == GuardStationId(inp)
        guard == IF gid # Null THEN StationGuard(station, alerts, incidents, gid) ELSE Allow
        late == IF gid # Null THEN [ok |-> TRUE, id |-> gid, code |-> 0, message |-> "none"]
                ELSE LateStationId(inp)
    IN  IF guard.deny THEN [ok |-> FALSE, id |-> Null, code |-> guard.code, message |-> guard.message]
        ELSE IF ~fieldsOk
        THEN [ok |-> FALSE, id |-> Null, code |-> 400, message |-> "Missing required fields"]
        ELSE IF reporter = "none"
        THEN [ok |-> FALSE, id |-> Null, code |-> 404, message |-> "User ID not found"]
        ELSE IF ~late.ok
        THEN [ok |-> FALSE, id |-> Null, code |-> late.code, message |-> late.message]
        ELSE [ok |-> TRUE, id |-> late.id, code |-> 201, message |-> "Emergency alert created successfully"]

\* The station a request names, whichever block resolves it.
RequestedStation(inp) ==
    IF GuardStationId(inp) # Null THEN GuardStationId(inp) ELSE LateStationId(inp).id

CreateResponse(inp, target, code, message, events) ==
    [Response("create", target, code, message, events) EXCEPT
        !.form = FormOf(inp), !.sid = RequestedStation(inp)]

CreateAlert(inp, fieldsOk, reporter) ==
    LET out == CreateOutcome(inp, fieldsOk, reporter) IN
    IF ~out.ok
    THEN /\ resp' = CreateResponse(inp, 0, out.code, out.message, {})
         /\ UNCHANGED <<station, alerts, incidents, units, now, tasks>>
    ELSE /\ \E a \in AlertIds : ~alerts[a].exists
         /\ LET a == FreeAlertId
                busy == \E i \in IncidentIds :
                            incidents[i].exists /\ incidents[i].station = out.id
                            /\ incidents[i].status \in NotifyLiveStatuses
            IN /\ alerts' = [alerts EXCEPT ![a] = AlertDefaults(out.id)]
               /\ station' = StationFindByIdAndUpdate(station, out.id, "hasActiveAlert", TRUE)
               /\ resp' = CreateResponse(inp, a, out.code, out.message,
                                         IF busy THEN {"active_incident_exists"} ELSE {"new_alert"})
         /\ UNCHANGED <<incidents, units, now, tasks>>

\* ------------------------------------------------ incident materialization
\* Department.findOne({ station_id, name: /operations/i }): any matching
\* department (no sort is given), null when none matches.
OperationsDepartmentsOf(sid) ==
    {d \in Departments : DepartmentStation[d] = sid /\ MatchesOperationsRegex(DepartmentName[d])}

\* Unit.findOne({ department, isActive: true }).
ActiveUnitsOf(d) == {u \in Units : units[u].department = d /\ units[u].isActive}

\* The turnoutSlip of an incident is modelled by its generation: NoSlip when
\* none is stored, else the number of times one was generated for it.
NoSlip == 0

\* Documents as `new Incident({alertId, station, departmentOnDuty, unitOnDuty,
\* status: 'pending'})` creates them.
IncidentDefaults(a, sid, d, u, status) ==
    [exists |-> TRUE, alertId |-> a, station |-> sid, departmentOnDuty |-> d,
     unitOnDuty |-> u, status |-> status, dispatchedAt |-> NoTime, arrivedAt |-> NoTime,
     resolvedAt |-> NoTime, closedAt |-> NoTime, turnoutSlip |-> NoSlip]

\* Incident.countDocuments({ station, status: { $in: live } }) > 0.
HasLiveIncident(inc, sid, live) ==
    \E i \in IncidentIds : inc[i].exists /\ inc[i].station = sid /\ inc[i].status \in live

\* EmergencyAlert.countDocuments({ station, status: { $in: ['active','pending'] } }) > 0.
HasOpenAlert(al, sid) ==
    \E a \in AlertIds : al[a].exists /\ al[a].station = sid /\ al[a].status \in OpenAlertStatuses

\* The "create incident after acceptance" block shared by update and
\* dispatch: its possible results on the current store.  Each result is the
\* incident collection and the station collection it leaves, and the event
\* it publishes.  `await incident.save()` may reject: the block then logs the
\* save error and leaves both collections as they were.
MaterializeResults(a, sid, st) ==
    LET none == [inc |-> incidents, st |-> st, events |-> {}, created |-> 0, logged |-> {}]
        depts == OperationsDepartmentsOf(sid)
    IN  IF sid = Null \/ depts = {} THEN {none}
        ELSE UNION {
               IF ActiveUnitsOf(d) = {} THEN {none}
               ELSE { LET i == FreeIncidentId
                          inc2 == [incidents EXCEPT ![i] = IncidentDefaults(a, sid, d, u, "pending")]
                      IN [inc |-> inc2,
                          st |-> StationFindByIdAndUpdate(st, sid, "hasActiveIncident",
                                     HasLiveIncident(inc2, sid, MaterializeLiveStatuses)),
                          events |-> {"new_incident"}, created |-> i, logged |-> {}]
                      : u \in ActiveUnitsOf(d) }
                    \cup {[none EXCEPT !.logged = {"incident save error"}]}
               : d \in depts }

CanMaterialize == \E i \in IncidentIds : ~incidents[i].exists

\* -------------------------------------------------- updateEmergencyAlert
\* String(status).trim().toLowerCase() over the status strings of the model.
NormalizeStatus(raw) ==
    CASE raw = " Accepted " -> "accepted"
      [] OTHER -> raw

PatchStatuses ==
    {Absent, "active", "accepted", "rejected", "referred", " Accepted ", "bogus"}

\* Request bodies of the generic update: an optional status, optional
\* explicit timestamps, an optional unit and an optional station.
Patches ==
    [status : PatchStatuses, dispatchedAt : BOOLEAN, declinedAt : {FALSE},
     referredAt : {FALSE}, unit : {Absent, "u1"}, station : {Absent, "s2"}]

\* updateData after the three "If updating status to ..." blocks.
UpdateData(patch) ==
    LET newStatus == IF patch.status = Absent THEN Null ELSE NormalizeStatus(patch.status)
        acc == newStatus = "accepted" /\ ~patch.dispatchedAt
        rej == newStatus = "rejected" /\ ~patch.declinedAt
        ref == newStatus = "referred" /\ ~patch.referredAt
    IN [status |-> IF acc THEN "accepted" ELSE IF rej THEN "rejected"
                   ELSE IF ref THEN "referred" ELSE patch.status,
        setDispatched |-> acc, setDeclined |-> rej, setReferred |-> ref,
        dispatchedAt |-> acc \/ patch.dispatchedAt,
        declinedAt |-> rej \/ patch.declinedAt,
        referredAt |-> ref \/ patch.referredAt,
        unit |-> patch.unit, station |-> patch.station]

\* EmergencyAlert.findByIdAndUpdate(id, updateData, { runValidators: true }).
ApplyUpdateData(doc, ud, t) ==
    [doc EXCEPT
        !.status = IF ud.status = Absent THEN @ ELSE ud.status,
        !.dispatched = IF ud.setDispatched THEN TRUE ELSE @,
        !.declined = IF ud.setDeclined THEN TRUE ELSE @,
        !.referred = IF ud.setReferred THEN TRUE ELSE @,
        !.dispatchedAt = IF ud.dispatchedAt THEN t ELSE @,
        !.declinedAt = IF ud.declinedAt THEN t ELSE @,
        !.referredAt = IF ud.referredAt THEN t ELSE @,
        !.unit = IF ud.unit = Absent THEN @ ELSE ud.unit,
        !.station = IF ud.station = Absent THEN @ ELSE ud.station]

UpdateAlert(a, patch) ==
    IF ~alerts[a].exists
    THEN /\ resp' = Response("update", a, 404, "Emergency alert not found", {})
         /\ UNCHANGED <<station, alerts, incidents, units, now, tasks>>
    ELSE LET cur == alerts[a]
             newStatus == IF patch.status = Absent THEN Null ELSE NormalizeStatus(patch.status)
             changing == newStatus = "accepted" /\ cur.status # "accepted"
             ud == UpdateData(patch)
         IN IF ud.status # Absent /\ ud.status \notin AlertStatusEnum
            THEN /\ resp' = Response("update", a, 400, "Validation error", {})
                 /\ UNCHANGED <<station, alerts, incidents, units, now, tasks>>
            ELSE LET al2 == [alerts EXCEPT ![a] = ApplyUpdateData(cur, ud, now)]
                     sidAfter == al2[a].station
                 IN /\ alerts' = al2
                    /\ changing => CanMaterialize
                    /\ \E m \in (IF changing THEN MaterializeResults(a, cur.station, station)
                                 ELSE {[inc |-> incidents, st |-> station, events |-> {}, created |-> 0,
                                        logged |-> {}]}) :
                          /\ incidents' = m.inc
                          /\ station' = StationFindByIdAndUpdate(m.st, sidAfter, "hasActiveAlert",
                                                                 HasOpenAlert(al2, sidAfter))
                          /\ resp' = [Response("update", a, 200, "Emergency alert updated successfully",
                                               m.events \cup {"alert_updated"})
                                         EXCEPT !.logged = m.logged]
                    /\ UNCHANGED <<units, now, tasks>>

\* -------------------------------------------------- deleteEmergencyAlert
DeleteAlert(a) ==
    IF ~alerts[a].exists
    THEN /\ resp' = Response("delete", a, 404, "Emergency alert not found", {})
         /\ UNCHANGED <<station, alerts, incidents, units, now, tasks>>
    ELSE LET sid == alerts[a].station
             al2 == [alerts EXCEPT ![a] = NoDoc]
         IN /\ alerts' = al2
            /\ station' = StationFindByIdAndUpdate(station, sid, "hasActiveAlert", HasOpenAlert(al2, sid))
            /\ resp' = Response("delete", a, 200, "Emergency alert deleted successfully", {"alert_deleted"})
            /\ UNCHANGED <<incidents, units, now, tasks>>

\* ------------------------------------------------- dispatchEmergencyAlert
\* `!emergencyAlert.unit || !emergencyAlert.unit.isActive` on the alert with
\* its unit populated.
NoActiveUnitAssigned(doc) ==
    doc.unit = Null \/ ~units[doc.unit].isActive

DispatchAlert(a) ==
    LET doc == alerts[a]
        reject(code, message) ==
            /\ resp' = Response("dispatch", a, code, message, {})
            /\ UNCHANGED <<station, alerts, incidents, units, now, tasks>>
    IN  IF ~doc.exists THEN reject(404, "Emergency alert not found")
        ELSE IF NoActiveUnitAssigned(doc)
        THEN reject(400, "must be assigned to an active unit")
        ELSE IF doc.dispatched THEN reject(400, "already dispatched")
        ELSE IF doc.declined THEN reject(400, "already declined")
        ELSE IF doc.referred THEN reject(400, "already referred")
        ELSE LET wasAlreadyAccepted == doc.status = "accepted"
                 al2 == [alerts EXCEPT ![a].dispatched = TRUE, ![a].dispatchedAt = now,
                                       ![a].status = "accepted"]
                 sid == doc.station
             IN /\ alerts' = al2
                /\ ~wasAlreadyAccepted => CanMaterialize
                /\ \E m \in (IF ~wasAlreadyAccepted THEN MaterializeResults(a, sid, station)
                             ELSE {[inc |-> incidents, st |-> station, events |-> {}, created |-> 0,
                                        logged |-> {}]}) :
                      /\ incidents' = m.inc
                      /\ station' = StationFindByIdAndUpdate(m.st, sid, "hasActiveAlert",
                                                             HasOpenAlert(al2, sid))
                      /\ resp' = [Response("dispatch", a, 200, "Emergency alert dispatched successfully",
                                           m.events \cup {"alert_updated"})
                                     EXCEPT !.logged = m.logged]
                /\ UNCHANGED <<units, now, tasks>>

\* -------------------------------------------------- declineEmergencyAlert
Reasons == {Null, "", "  ", " no crew "}

\* String.prototype.trim over the reasons of the model.
Trim(r) ==
    CASE r = "  " -> ""
      [] r = " no crew " -> "no crew"
      [] OTHER -> r

\* `!reason || reason.trim().length === 0`
ReasonMissing(r) == r = Null \/ r = "" \/ Trim(r) = ""

DeclineAlert(a, reason) ==
    LET doc == alerts[a]
        reject(code, message) ==
            /\ resp' = Response("decline", a, code, message, {})
            /\ UNCHANGED <<station, alerts, incidents, units, now, tasks>>
    IN  IF ReasonMissing(reason) THEN reject(400, "Decline reason is required")
        ELSE IF ~doc.exists THEN reject(404, "Emergency alert not found")
        ELSE IF NoActiveUnitAssigned(doc)
        THEN reject(400, "must be assigned to an active unit")
        ELSE IF doc.dispatched THEN reject(400, "already dispatched")
        ELSE IF doc.declined THEN reject(400, "already declined")
        ELSE IF doc.referred THEN reject(400, "already referred")
        ELSE /\ alerts' = [alerts EXCEPT ![a].declined = TRUE, ![a].declinedAt = now,
                                         ![a].declineReason = Trim(reason)]
             /\ resp' = Response("decline", a, 200, "Emergency alert declined successfully", {})
             /\ UNCHANGED <<station, incidents, units, now, tasks>>

\* ---------------------------------------------------- referEmergencyAlert
ReferTargets == Stations \cup {MissingStation, Null}

\* The same-station test with the comparison left out.
SameStationNever(doc, target) == FALSE

\* `emergencyAlert.station.toString() === stationId`
SameStation(doc, target) == doc.station = target

\* The response of a refer request names the station the request named.
ReferAlert(a, target, reason) ==
    LET doc == alerts[a]
        reject(code, message) ==
            /\ resp' = [Response("refer", a, code, message, {}) EXCEPT !.sid = target]
            /\ UNCHANGED <<station, alerts, incidents, units, now, tasks>>
    IN  IF target = Null THEN reject(400, "Station ID is required")
        ELSE IF ReasonMissing(reason) THEN reject(400, "Refer reason is required")
        ELSE IF target \notin DOMAIN station THEN reject(404, "Referred station not found")
        ELSE IF ~doc.exists THEN reject(404, "Emergency alert not found")
        ELSE IF NoActiveUnitAssigned(doc)
        THEN reject(400, "must be assigned to an active unit")
        ELSE IF doc.station = Null THEN reject(500, "Cannot read properties of null")
        ELSE IF SameStation(doc, target)
        THEN reject(400, "Cannot refer emergency alert to the same station")
        ELSE IF doc.dispatched THEN reject(400, "already dispatched")
        ELSE IF doc.declined THEN reject(400, "already declined")
        ELSE IF doc.referred THEN reject(400, "already referred")
        ELSE /\ alerts' = [alerts EXCEPT ![a].referred = TRUE, ![a].referredAt = now,
                                         ![a].referredToStation = target,
                                         ![a].referReason = Trim(reason),
                                         ![a].station = target,
                                         ![a].unit = Null, ![a].department = Null]
             /\ resp' = [Response("refer", a, 200, "Emergency alert referred successfully", {})
                         EXCEPT !.sid = target]
             /\ UNCHANGED <<station, incidents, units, now, tasks>>

\* ------------------------------------------------------------ UnitScheduler
\* A threshold of a full day after t instead of h o'clock on the next
\* calendar day.
NextDayAtRolling(t, h) == t + 24

\* `new Date(activatedAt); setDate(getDate() + 1); setHours(h, 0, 0, 0)`:
\* h o'clock on the calendar day after t.
NextDayAt(t, h) == ((t \div 24) + 1) * 24 + h

ManualHour == 7
SweepHour == 8

\* `unit.department.name.toLowerCase() !== 'operations'`
IsOperationsDepartment(d) == d # Null /\ ToLowerCase(DepartmentName[d]) = "operations"

\* The query with `_id: unitId` in place of `_id: { $ne: unitId }`.
OtherActiveUnitsSelf(un, u) ==
    {v \in Units : v = u /\ un[v].department = un[u].department /\ un[v].isActive}

\* Unit.findOne({ department, isActive: true, _id: { $ne: unitId } })
OtherActiveUnits(un, u) ==
    {v \in Units : v # u /\ un[v].department = un[u].department /\ un[v].isActive}

ActivateUnit(u) ==
    IF ~IsOperationsDepartment(units[u].department)
    THEN /\ resp' = UnitResponse("activate", u, 400, "Only Operations department units can be activated",
                                 Null, NoTime, {})
         /\ UNCHANGED <<station, alerts, incidents, units, now, tasks>>
    ELSE IF OtherActiveUnits(units, u) # {}
    THEN /\ \E v \in OtherActiveUnits(units, u) :
               resp' = UnitResponse("activate", u, 400, "Another unit is already active in this department",
                                    v, NoTime, {})
         /\ UNCHANGED <<station, alerts, incidents, units, now, tasks>>
    ELSE /\ units' = [units EXCEPT ![u].isActive = TRUE, ![u].activatedAt = now]
         /\ resp' = UnitResponse("activate", u, 200, "Unit activated successfully", Null, NoTime, {})
         /\ UNCHANGED <<station, alerts, incidents, now, tasks>>

\* updateUnit with a body that names a department or none: the department
\* is written with findByIdAndUpdate whatever the unit's duty state.
UpdateUnit(u, department) ==
    /\ units' = [units EXCEPT ![u].department = IF department = Absent THEN @ ELSE department]
    /\ resp' = UnitResponse("updateUnit", u, 200, "Unit updated successfully", Null, NoTime, {})
    /\ UNCHANGED <<station, alerts, incidents, now, tasks>>

DeactivateUnit(u) ==
    IF units[u].activatedAt # NoTime /\ now < NextDayAt(units[u].activatedAt, ManualHour)
    THEN /\ resp' = UnitResponse("deactivate", u, 400, "Unit can only be deactivated after 7 AM the next day",
                                 Null, NextDayAt(units[u].activatedAt, ManualHour), {})
         /\ UNCHANGED <<station, alerts, incidents, units, now, tasks>>
    ELSE /\ units' = [units EXCEPT ![u].isActive = FALSE, ![u].activatedAt = NoTime]
         /\ resp' = UnitResponse("deactivate", u, 200, "Unit deactivated successfully", Null, NoTime, {})
         /\ UNCHANGED <<station, alerts, incidents, now, tasks>>

\* The due units computed with the manual threshold (07:00) instead of 08:00.
DueUnitsAtManualHour(un, t) ==
    {u \in Units : un[u].isActive /\ un[u].activatedAt # NoTime
                   /\ t >= NextDayAt(un[u].activatedAt, ManualHour)}

\* The due units with `now > nextDay8AM` in place of `now >= nextDay8AM`.
DueUnitsStrictlyAfter(un, t) ==
    {u \in Units : un[u].isActive /\ un[u].activatedAt # NoTime
                   /\ t > NextDayAt(un[u].activatedAt, SweepHour)}

\* The units autoDeactivateUnits will save: on duty at the scan, with an
\* activation time, and past 08:00 of the next day at the scan's `now`.
DueUnits(un, t) ==
    {u \in Units : un[u].isActive /\ un[u].activatedAt # NoTime
                   /\ t >= NextDayAt(un[u].activatedAt, SweepHour)}

\* The loop of autoDeactivateUnits over the scanned units, in the scan's
\* order, when unit.save() rejects for the units of `failing`: the rejection
\* leaves the loop and is rethrown by the function's catch.
SweepOutcome(un, t, failing) ==
    LET due == DueUnits(un, t)
        bad == due \cap failing
    IN  IF bad = {} THEN [cleared |-> due, threw |-> FALSE]
        ELSE LET f == CHOOSE v \in bad : \A w \in bad : UnitOrder[v] <= UnitOrder[w]
             IN [cleared |-> {u \in due : UnitOrder[u] < UnitOrder[f]}, threw |-> TRUE]

\* autoDeactivateUnits run without suspension.
AutoDeactivateUnits(failing) ==
    LET out == SweepOutcome(units, now, failing) IN
    /\ units' = [u \in Units |->
                    IF u \in out.cleared
                    THEN [units[u] EXCEPT !.isActive = FALSE, !.activatedAt = NoTime]
                    ELSE units[u]]
    /\ resp' = IF out.threw
               THEN UnitResponse("sweep", Null, 500, "threw", Null, NoTime, {})
               ELSE UnitResponse("sweep", Null, 200, "deactivated", Null, NoTime, out.cleared)
    /\ UNCHANGED <<station, alerts, incidents, now, tasks>>

\* -------------------------------------------------------- IncidentLifecycle
\* The status pre-save hook of the Incident schema: runs when the status
\* path is modified; slipOk is whether the turnout-slip generator returns.
PreSaveStatus(doc, statusModified, t, slipOk) ==
    IF ~statusModified THEN doc
    ELSE CASE doc.status = "dispatched" ->
                [doc EXCEPT !.dispatchedAt = IF @ = NoTime THEN t ELSE @,
                            !.turnoutSlip = IF @ = NoSlip /\ alerts[doc.alertId].exists /\ slipOk
                                            THEN @ + 1 ELSE @]
           [] doc.status = "on_scene" -> [doc EXCEPT !.arrivedAt = IF @ = NoTime THEN t ELSE @]
           [] doc.status = "resolved" -> [doc EXCEPT !.resolvedAt = IF @ = NoTime THEN t ELSE @]
           [] doc.status = "closed" -> [doc EXCEPT !.closedAt = IF @ = NoTime THEN t ELSE @]
           [] OTHER -> doc

\* The station-flag recompute that follows every direct incident operation.
RecomputeIncidentFlag(st, inc, sid) ==
    StationFindByIdAndUpdate(st, sid, "hasActiveIncident", HasLiveIncident(inc, sid, FlagLiveStatuses))

CreateIncidentStatuses == {Absent} \cup IncidentStatusEnum \cup {"bogus"}

CreateIncident(a, d, u, status, slipOk) ==
    LET reject(code, message) ==
            /\ resp' = Response("createIncident", 0, code, message, {})
            /\ UNCHANGED <<station, alerts, incidents, units, now, tasks>>
        st == IF status = Absent THEN "pending" ELSE status
    IN  IF alerts[a].exists /\ alerts[a].station \in DOMAIN station
           /\ StationGetStatus(station[alerts[a].station]) = "out of commission"
        THEN reject(400, "Cannot create incident: Station is out of commission")
        ELSE IF ~alerts[a].exists THEN reject(404, "Alert not found")
        ELSE IF st \notin IncidentStatusEnum THEN reject(400, "Validation error")
        ELSE /\ CanMaterialize
             /\ LET i == FreeIncidentId
                    sid == alerts[a].station
                    doc == PreSaveStatus(IncidentDefaults(a, sid, d, u, st), TRUE, now, slipOk)
                    inc2 == [incidents EXCEPT ![i] = doc]
                IN /\ incidents' = inc2
                   /\ station' = RecomputeIncidentFlag(station, inc2, sid)
                   /\ resp' = Response("createIncident", i, 201, "Incident created successfully",
                                       {"new_incident"})
             /\ UNCHANGED <<alerts, units, now, tasks>>

IncidentPatches ==
    [status : {Absent} \cup IncidentStatusEnum \cup {"bogus"}, station : {Absent} \cup Stations]

\* Incident.findByIdAndUpdate(id, updateData, { runValidators: true }): no
\* save hook runs.
UpdateIncident(i, patch) ==
    LET reject(code, message) ==
            /\ resp' = Response("updateIncident", i, code, message, {})
            /\ UNCHANGED <<station, alerts, incidents, units, now, tasks>>
    IN  IF patch.status \notin {Absent} \cup IncidentStatusEnum THEN reject(400, "Validation error")
        ELSE IF ~incidents[i].exists THEN reject(404, "Incident not found")
        ELSE LET doc == [incidents[i] EXCEPT
                            !.status = IF patch.status = Absent THEN @ ELSE patch.status,
                            !.station = IF patch.station = Absent THEN @ ELSE patch.station]
                 inc2 == [incidents EXCEPT ![i] = doc]
             IN /\ incidents' = inc2
                /\ station' = RecomputeIncidentFlag(station, inc2, doc.station)
                /\ resp' = Response("updateIncident", i, 200, "Incident updated successfully",
                                    {"incident_updated"})
                /\ UNCHANGED <<alerts, units, now, tasks>>

ValidStatuses == {"pending", "active", "dispatched", "on_scene", "resolved", "closed"}
SetStatusInputs == IncidentStatusEnum \cup {"bogus"}
TimestampOverrides == {NoTime, 5}

\* The switch without its `if (!incident.<field>)` tests.
StampStatusOverwriting(doc, status, t) ==
    CASE status = "dispatched" -> [doc EXCEPT !.dispatchedAt = t]
      [] status = "on_scene" -> [doc EXCEPT !.arrivedAt = t]
      [] status = "resolved" -> [doc EXCEPT !.resolvedAt = t]
      [] status = "closed" -> [doc EXCEPT !.closedAt = t]
      [] OTHER -> doc

\* The switch of updateIncidentStatus that stamps the operational timestamp.
StampStatus(doc, status, t) ==
    CASE status = "dispatched" -> [doc EXCEPT !.dispatchedAt = IF @ = NoTime THEN t ELSE @]
      [] status = "on_scene" -> [doc EXCEPT !.arrivedAt = IF @ = NoTime THEN t ELSE @]
      [] status = "resolved" -> [doc EXCEPT !.resolvedAt = IF @ = NoTime THEN t ELSE @]
      [] status = "closed" -> [doc EXCEPT !.closedAt = IF @ = NoTime THEN t ELSE @]
      [] OTHER -> doc

\* The response of a setStatus request carries the status the request asked
\* for.
UpdateIncidentStatus(i, status, timestamp, slipOk) ==
    LET reject(code, message) ==
            /\ resp' = [Response("setStatus", i, code, message, {}) EXCEPT !.status = status]
            /\ UNCHANGED <<station, alerts, incidents, units, now, tasks>>
    IN  IF status \notin ValidStatuses THEN reject(400, "Status must be one of the valid statuses")
        ELSE IF ~incidents[i].exists THEN reject(404, "Incident not found")
        ELSE IF ~alerts[incidents[i].alertId].exists
        THEN reject(500, "Referenced alert does not exist")
        ELSE LET old == incidents[i]
                 t == IF timestamp = NoTime THEN now ELSE timestamp
                 stamped == StampStatus([old EXCEPT !.status = status], status, t)
                 doc == PreSaveStatus(stamped, old.status # status, now, slipOk)
                 inc2 == [incidents EXCEPT ![i] = doc]
             IN /\ incidents' = inc2
                /\ station' = RecomputeIncidentFlag(station, inc2, doc.station)
                /\ resp' = [Response("setStatus", i, 200, "Incident status updated successfully",
                                     {"incident_updated"}) EXCEPT !.status = status]
                /\ UNCHANGED <<alerts, units, now, tasks>>

DeleteIncident(i) ==
    IF ~incidents[i].exists
    THEN /\ resp' = Response("deleteIncident", i, 404, "Incident not found", {})
         /\ UNCHANGED <<station, alerts, incidents, units, now, tasks>>
    ELSE LET sid == incidents[i].station
             inc2 == [incidents EXCEPT ![i] = NoDoc]
         IN /\ incidents' = inc2
            /\ station' = RecomputeIncidentFlag(station, inc2, sid)
            /\ resp' = Response("deleteIncident", i, 200, "Incident deleted successfully",
                                {"incident_deleted"})
            /\ UNCHANGED <<alerts, units, now, tasks>>

\* ------------------------------------- UnitScheduler, request by request
\* A request suspends at each await.  An activate or deactivate request
\* reads and decides in its first step and writes in its second; the sweep
\* scans in its first step and saves one due unit per later step.
EmptyPatch ==
    [status |-> Absent, dispatchedAt |-> FALSE, declinedAt |-> FALSE, referredAt |-> FALSE,
     unit |-> Absent, station |-> Absent]

Idle == [kind |-> "idle", unit |-> Null, at |-> NoTime, seenActive |-> FALSE, todo |-> {}, done |-> {},
         alert |-> 0, seen |-> NoDoc, patch |-> EmptyPatch, target |-> Null, reason |-> Null]

\* The instants the clock visits: 06:00, 07:00, 08:00 and 10:00 of every day.
TimePoints == {t \in 0..MaxTime : t % 24 \in {ManualHour - 1, ManualHour, SweepHour, 10}}

Tick ==
    /\ \E t \in TimePoints : t > now /\ now' = t
    /\ UNCHANGED <<station, alerts, incidents, units, resp, tasks>>

\* activateUnit up to its save: findById, the department check, findOne.
StartActivate(t, u) ==
    /\ tasks[t].kind = "idle"
    /\ IF ~IsOperationsDepartment(units[u].department)
       THEN /\ resp' = Response("activate", 0, 400, "Only Operations department units can be activated", {})
            /\ UNCHANGED tasks
       ELSE IF OtherActiveUnits(units, u) # {}
       THEN /\ resp' = Response("activate", 0, 400, "Another unit is already active in this department", {})
            /\ UNCHANGED tasks
       ELSE /\ tasks' = [tasks EXCEPT ![t] = [Idle EXCEPT !.kind = "activate", !.unit = u, !.at = now,
                                                         !.seenActive = units[u].isActive]]
            /\ UNCHANGED resp
    /\ UNCHANGED <<station, alerts, incidents, units, now>>

\* unit.save() of activateUnit: writes the paths the request modified.
FinishActivate(t) ==
    /\ tasks[t].kind = "activate"
    /\ units' = [units EXCEPT ![tasks[t].unit].isActive = IF tasks[t].seenActive THEN @ ELSE TRUE,
                              ![tasks[t].unit].activatedAt = tasks[t].at]
    /\ tasks' = [tasks EXCEPT ![t] = Idle]
    /\ resp' = Response("activate", 0, 200, "Unit activated successfully", {})
    /\ UNCHANGED <<station, alerts, incidents, now>>

\* deactivateUnit up to its findByIdAndUpdate.
StartDeactivate(t, u) ==
    /\ tasks[t].kind = "idle"
    /\ IF units[u].activatedAt # NoTime /\ now < NextDayAt(units[u].activatedAt, ManualHour)
       THEN /\ resp' = Response("deactivate", 0, 400, "Unit can only be deactivated after 7 AM the next day", {})
            /\ UNCHANGED tasks
       ELSE /\ tasks' = [tasks EXCEPT ![t] = [Idle EXCEPT !.kind = "deactivate", !.unit = u]]
            /\ UNCHANGED resp
    /\ UNCHANGED <<station, alerts, incidents, units, now>>

FinishDeactivate(t) ==
    /\ tasks[t].kind = "deactivate"
    /\ units' = [units EXCEPT ![tasks[t].unit].isActive = FALSE, ![tasks[t].unit].activatedAt = NoTime]
    /\ tasks' = [tasks EXCEPT ![t] = Idle]
    /\ resp' = Response("deactivate", 0, 200, "Unit deactivated successfully", {})
    /\ UNCHANGED <<station, alerts, incidents, now>>

StartSweep(t) ==
    /\ tasks[t].kind = "idle"
    /\ IF DueUnits(units, now) = {}
       THEN /\ resp' = UnitResponse("sweep", Null, 200, "deactivated", Null, NoTime, {})
            /\ UNCHANGED tasks
       ELSE /\ tasks' = [tasks EXCEPT ![t] = [Idle EXCEPT !.kind = "sweep", !.todo = DueUnits(units, now)]]
            /\ UNCHANGED resp
    /\ UNCHANGED <<station, alerts, incidents, units, now>>

\* One iteration of the sweep's loop with the save left out: the unit is
\* pushed on the list and nothing is written.
SweepStepWithoutSave(t) ==
    /\ tasks[t].kind = "sweep"
    /\ LET u == CHOOSE v \in tasks[t].todo : \A w \in tasks[t].todo : UnitOrder[v] <= UnitOrder[w]
           rest == tasks[t].todo \ {u}
           done == tasks[t].done \cup {u}
       IN /\ tasks' = [tasks EXCEPT ![t] = IF rest = {} THEN Idle
                                           ELSE [@ EXCEPT !.todo = rest, !.done = done]]
          /\ IF rest = {} THEN resp' = UnitResponse("sweep", Null, 200, "deactivated", Null, NoTime, done)
             ELSE UNCHANGED resp
    /\ UNCHANGED <<station, alerts, incidents, units, now>>

\* One iteration of the sweep's loop that saves a unit (the scan's order) and
\* pushes it on deactivatedUnits; after the last one the sweep returns the
\* list.
SweepStep(t) ==
    /\ tasks[t].kind = "sweep"
    /\ LET u == CHOOSE v \in tasks[t].todo : \A w \in tasks[t].todo : UnitOrder[v] <= UnitOrder[w]
           rest == tasks[t].todo \ {u}
           done == tasks[t].done \cup {u}
       IN /\ units' = [units EXCEPT ![u].isActive = FALSE, ![u].activatedAt = NoTime]
          /\ tasks' = [tasks EXCEPT ![t] = IF rest = {} THEN Idle
                                           ELSE [@ EXCEPT !.todo = rest, !.done = done]]
          /\ IF rest = {} THEN resp' = UnitResponse("sweep", Null, 200, "deactivated", Null, NoTime, done)
             ELSE UNCHANGED resp
    /\ UNCHANGED <<station, alerts, incidents, now>>

\* ------------------------------------ alert requests, request by request
\* updateEmergencyAlert up to its findByIdAndUpdate: the request keeps the
\* document findById returned (currentAlert).
StartUpdate(t, a, patch) ==
    /\ tasks[t].kind = "idle"
    /\ IF ~alerts[a].exists
       THEN /\ resp' = Response("update", a, 404, "Emergency alert not found", {})
            /\ UNCHANGED tasks
       ELSE /\ tasks' = [tasks EXCEPT ![t] = [Idle EXCEPT !.kind = "update", !.alert = a,
                                                         !.seen = alerts[a], !.patch = patch]]
            /\ UNCHANGED resp
    /\ UNCHANGED <<station, alerts, incidents, units, now>>

\* updateEmergencyAlert from its findByIdAndUpdate on: the write applies to
\* the stored document, isStatusChangingToAccepted and the station of the
\* incident come from currentAlert.
FinishUpdate(t) ==
    /\ tasks[t].kind = "update"
    /\ tasks' = [tasks EXCEPT ![t] = Idle]
    /\ LET a == tasks[t].alert
           cur == tasks[t].seen
           patch == tasks[t].patch
           newStatus == IF patch.status = Absent THEN Null ELSE NormalizeStatus(patch.status)
           changing == newStatus = "accepted" /\ cur.status # "accepted"
           ud == UpdateData(patch)
       IN IF ud.status # Absent /\ ud.status \notin AlertStatusEnum
          THEN /\ resp' = Response("update", a, 400, "Validation error", {})
               /\ UNCHANGED <<station, alerts, incidents, units, now>>
          ELSE IF ~alerts[a].exists
          THEN /\ resp' = Response("update", a, 404, "Emergency alert not found", {})
               /\ UNCHANGED <<station, alerts, incidents, units, now>>
          ELSE LET al2 == [alerts EXCEPT ![a] = ApplyUpdateData(alerts[a], ud, now)]
                   sidAfter == al2[a].station
               IN /\ alerts' = al2
                  /\ changing => CanMaterialize
                  /\ \E m \in (IF changing THEN MaterializeResults(a, cur.station, station)
                               ELSE {[inc |-> incidents, st |-> station, events |-> {}, created |-> 0,
                                      logged |-> {}]}) :
                        /\ incidents' = m.inc
                        /\ station' = StationFindByIdAndUpdate(m.st, sidAfter, "hasActiveAlert",
                                                               HasOpenAlert(al2, sidAfter))
                        /\ resp' = [Response("update", a, 200, "Emergency alert updated successfully",
                                             m.events \cup {"alert_updated"})
                                       EXCEPT !.logged = m.logged]
                  /\ UNCHANGED <<units, now>>

\* The checks a triage handler runs on the document findById returned,
\* before it changes it: the first failing one, or code 0 when all pass.
TriageRejection(kind, doc, target) ==
    IF ~doc.exists THEN [code |-> 404, message |-> "Emergency alert not found"]
    ELSE IF NoActiveUnitAssigned(doc)
    THEN [code |-> 400, message |-> "must be assigned to an active unit"]
    ELSE IF kind = "refer" /\ doc.station = Null
    THEN [code |-> 500, message |-> "Cannot read properties of null"]
    ELSE IF kind = "refer" /\ SameStation(doc, target)
    THEN [code |-> 400, message |-> "Cannot refer emergency alert to the same station"]
    ELSE IF doc.dispatched THEN [code |-> 400, message |-> "already dispatched"]
    ELSE IF doc.declined THEN [code |-> 400, message |-> "already declined"]
    ELSE IF doc.referred THEN [code |-> 400, message |-> "already referred"]
    ELSE [code |-> 0, message |-> "none"]

\* dispatch, decline or refer up to its emergencyAlert.save(): the request
\* holds the document it read and has passed every check on it.
StartTriage(t, kind, a, target, reason) ==
    /\ tasks[t].kind = "idle"
    /\ ~ReasonMissing(reason)
    /\ target \in DOMAIN station
    /\ LET rej == TriageRejection(kind, alerts[a], target) IN
       IF rej.code # 0
       THEN /\ resp' = [Response(kind, a, rej.code, rej.message, {})
                          EXCEPT !.sid = IF kind = "refer" THEN target ELSE @]
            /\ UNCHANGED tasks
       ELSE /\ tasks' = [tasks EXCEPT ![t] = [Idle EXCEPT !.kind = kind, !.alert = a,
                                                         !.seen = alerts[a], !.target = target,
                                                         !.reason = reason]]
            /\ UNCHANGED resp
    /\ UNCHANGED <<station, alerts, incidents, units, now>>

\* emergencyAlert.save() of a triage request and what follows it: the save
\* writes the paths the request assigned to the stored document.
FinishTriage(t) ==
    /\ tasks[t].kind \in {"dispatch", "decline", "refer"}
    /\ tasks' = [tasks EXCEPT ![t] = Idle]
    /\ LET a == tasks[t].alert
           doc == tasks[t].seen
           kind == tasks[t].kind
       IN IF ~alerts[a].exists
          THEN /\ resp' = Response(kind, a, 500, "No document found for query", {})
               /\ UNCHANGED <<station, alerts, incidents, units, now>>
          ELSE IF kind = "dispatch"
          THEN LET wasAlreadyAccepted == doc.status = "accepted"
                   al2 == [alerts EXCEPT ![a].dispatched = TRUE, ![a].dispatchedAt = now,
                                         ![a].status = "accepted"]
                   sid == doc.station
               IN /\ alerts' = al2
                  /\ ~wasAlreadyAccepted => CanMaterialize
                  /\ \E m \in (IF ~wasAlreadyAccepted THEN MaterializeResults(a, sid, station)
                               ELSE {[inc |-> incidents, st |-> station, events |-> {}, created |-> 0,
                                      logged |-> {}]}) :
                        /\ incidents' = m.inc
                        /\ station' = StationFindByIdAndUpdate(m.st, sid, "hasActiveAlert",
                                                               HasOpenAlert(al2, sid))
                        /\ resp' = [Response("dispatch", a, 200, "Emergency alert dispatched successfully",
                                             m.events \cup {"alert_updated"})
                                       EXCEPT !.logged = m.logged]
                  /\ UNCHANGED <<units, now>>
          ELSE IF kind = "decline"
          THEN /\ alerts' = [alerts EXCEPT ![a].declined = TRUE, ![a].declinedAt = now,
                                           ![a].declineReason = Trim(tasks[t].reason)]
               /\ resp' = Response("decline", a, 200, "Emergency alert declined successfully", {})
               /\ UNCHANGED <<station, incidents, units, now>>
          ELSE /\ alerts' = [alerts EXCEPT ![a].referred = TRUE, ![a].referredAt = now,
                                           ![a].referredToStation = tasks[t].target,
                                           ![a].referReason = Trim(tasks[t].reason),
                                           ![a].station = tasks[t].target,
                                           ![a].unit = Null, ![a].department = Null]
               /\ resp' = [Response("refer", a, 200, "Emergency alert referred successfully", {})
                           EXCEPT !.sid = tasks[t].target]
               /\ UNCHANGED <<station, incidents, units, now>>

\* ---------------------------------------------------------- specifications
Init ==
    /\ station = StationDocs
    /\ alerts = [a \in AlertIds |-> NoDoc]
    /\ incidents = [i \in IncidentIds |-> NoDoc]
    /\ units = [u \in Units |-> UnitDefaults(UnitDepartment[u])]
    /\ now = 10
    /\ resp = NoResp
    /\ tasks = [t \in Tasks |-> Idle]
    /\ steps = 0
    /\ io = "ok"

\* Every handler step draws on the step budget.
Budget ==
    /\ steps < MaxSteps
    /\ steps' = steps + 1
    /\ UNCHANGED io

\* Alert lifecycle, one request at a time, with units going on duty.
NextAlert ==
    \/ \E inp \in StationInputs, fieldsOk \in BOOLEAN, reporter \in Reporters :
          Budget /\ CreateAlert(inp, fieldsOk, reporter)
    \/ \E a \in AlertIds, patch \in Patches : Budget /\ UpdateAlert(a, patch)
    \/ \E a \in AlertIds : Budget /\ DispatchAlert(a)
    \/ \E a \in AlertIds, reason \in Reasons : Budget /\ DeclineAlert(a, reason)
    \/ \E a \in AlertIds, target \in ReferTargets, reason \in Reasons :
          Budget /\ ReferAlert(a, target, reason)
    \/ \E a \in AlertIds : Budget /\ DeleteAlert(a)
    \/ \E u \in Units : Budget /\ ActivateUnit(u)

SpecAlert == Init /\ [][NextAlert]_vars

\* Direct incident operations on alerts created through the guard.
NextIncident ==
    \/ \E inp \in StationInputs, fieldsOk \in BOOLEAN, reporter \in Reporters :
          Budget /\ CreateAlert(inp, fieldsOk, reporter)
    \/ \E a \in AlertIds, d \in {"d1"}, u \in {"u1"}, status \in CreateIncidentStatuses,
          slipOk \in BOOLEAN : Budget /\ CreateIncident(a, d, u, status, slipOk)
    \/ \E i \in IncidentIds, patch \in IncidentPatches : Budget /\ UpdateIncident(i, patch)
    \/ \E i \in IncidentIds, status \in SetStatusInputs, timestamp \in TimestampOverrides,
          slipOk \in BOOLEAN : Budget /\ UpdateIncidentStatus(i, status, timestamp, slipOk)
    \/ \E i \in IncidentIds : Budget /\ DeleteIncident(i)

SpecIncident == Init /\ [][NextIncident]_vars

\* The incident status machine on the alerts of one station: alerts come and
\* go, incidents are created, patched and moved through their statuses.
NextStatus ==
    \/ \E inp \in {StationInput(TRUE, TRUE, "s1", Null, Null, Null, Null)} :
          Budget /\ CreateAlert(inp, TRUE, "User")
    \/ \E a \in AlertIds : Budget /\ DeleteAlert(a)
    \/ \E a \in AlertIds, status \in CreateIncidentStatuses, slipOk \in BOOLEAN :
          Budget /\ CreateIncident(a, "d1", "u1", status, slipOk)
    \/ \E i \in IncidentIds, patch \in IncidentPatches : Budget /\ UpdateIncident(i, patch)
    \/ \E i \in IncidentIds, status \in SetStatusInputs, timestamp \in TimestampOverrides,
          slipOk \in BOOLEAN : Budget /\ UpdateIncidentStatus(i, status, timestamp, slipOk)

SpecStatus == Init /\ [][NextStatus]_vars

\* The same operations on a store whose station documents already carry
\* flag fields (the fields are data of the collection; the guard reads them).
InitFlagged ==
    /\ station \in {[StationDocs EXCEPT !["s1"].hasActiveIncident = f, !["s1"].hasActiveAlert = g] :
                       f \in BOOLEAN, g \in BOOLEAN}
    /\ alerts = [a \in AlertIds |-> NoDoc]
    /\ incidents = [i \in IncidentIds |-> NoDoc]
    /\ units = [u \in Units |-> UnitDefaults(UnitDepartment[u])]
    /\ now = 10
    /\ resp = NoResp
    /\ tasks = [t \in Tasks |-> Idle]
    /\ steps = 0
    /\ io = "ok"

SpecFlagged == InitFlagged /\ [][NextIncident]_vars

UnitBudget ==
    /\ steps < MaxUnitSteps
    /\ steps' = steps + 1
    /\ UNCHANGED io

\* Unit scheduling with requests interleaved at their awaits.
NextUnits ==
    \/ UnitBudget /\ Tick
    \/ \E t \in Tasks, u \in Units : UnitBudget /\ StartActivate(t, u)
    \/ \E t \in Tasks : UnitBudget /\ FinishActivate(t)
    \/ \E t \in Tasks, u \in Units : UnitBudget /\ StartDeactivate(t, u)
    \/ \E t \in Tasks : UnitBudget /\ FinishDeactivate(t)
    \/ \E t \in Tasks : UnitBudget /\ StartSweep(t)
    \/ \E t \in Tasks : UnitBudget /\ SweepStep(t)

SpecUnits == Init /\ [][NextUnits]_vars

\* The unit.save() calls of one sweep that reject: none, or the save of one
\* unit.
SaveFailures == {F \in SUBSET Units : Cardinality(F) <= 1}

\* Manual deactivation requests and sweeps overlapping at one instant, on
\* units that went on duty earlier: per department none or one unit is on
\* duty, since 10:00 of day 0 or 07:00 of day 1.
DutyStarts == {10, 24 + ManualHour}

OverlapInstants == {24 + ManualHour, 24 + SweepHour, 34}

OnDuty(u, a) == [UnitDefaults(UnitDepartment[u]) EXCEPT !.isActive = TRUE, !.activatedAt = a]

DutyRosters ==
    {un \in [Units -> {UnitDefaults(UnitDepartment[u]) : u \in Units}
                        \cup {OnDuty(u, a) : u \in Units, a \in DutyStarts}] :
        /\ \A u \in Units : un[u].department = UnitDepartment[u]
        /\ \A u \in Units : un[u].isActive => OtherActiveUnits(un, u) = {}}

InitOverlap ==
    /\ station = StationDocs
    /\ alerts = [a \in AlertIds |-> NoDoc]
    /\ incidents = [i \in IncidentIds |-> NoDoc]
    /\ now \in OverlapInstants
    /\ units \in {un \in DutyRosters : \A u \in Units : un[u].activatedAt <= now}
    /\ resp = NoResp
    /\ tasks = [t \in Tasks |-> Idle]
    /\ steps = 0
    /\ io = "ok"

NextOverlap ==
    \/ \E t \in Tasks, u \in Units : UnitBudget /\ StartDeactivate(t, u)
    \/ \E t \in Tasks : UnitBudget /\ FinishDeactivate(t)
    \/ \E t \in Tasks : UnitBudget /\ StartSweep(t)
    \/ \E t \in Tasks : UnitBudget /\ SweepStep(t)

SpecOverlap == InitOverlap /\ [][NextOverlap]_vars

\* The lifecycle operations on the alerts and incidents of one station, each
\* request on a socket server that is there, was never initialised or throws.
PublishBudget ==
    /\ steps < MaxPublishSteps
    /\ steps' = steps + 1
    /\ io' \in IoStates

PublishPatches ==
    {p \in Patches : /\ ~p.dispatchedAt /\ p.station = Absent
                     /\ \/ p.status = "accepted" /\ p.unit = Absent
                        \/ p.status = Absent /\ p.unit = "u1"}

\* The store before the requests: no alert, no incident, u1 off duty or on
\* duty since 10:00 of day 0.
InitPublish ==
    /\ station = StationDocs
    /\ alerts = [a \in AlertIds |-> NoDoc]
    /\ incidents = [i \in IncidentIds |-> NoDoc]
    /\ units \in {[u \in Units |-> UnitDefaults(UnitDepartment[u])],
                  [[u \in Units |-> UnitDefaults(UnitDepartment[u])] EXCEPT !["u1"] = OnDuty("u1", 10)]}
    /\ now = 10
    /\ resp = NoResp
    /\ tasks = [t \in Tasks |-> Idle]
    /\ steps = 0
    /\ io \in IoStates

NextPublish ==
    \/ PublishBudget /\ CreateAlert(StationInput(TRUE, TRUE, "s1", Null, Null, Null, Null), TRUE, "User")
    \/ \E a \in AlertIds, patch \in PublishPatches : PublishBudget /\ UpdateAlert(a, patch)
    \/ \E a \in AlertIds : PublishBudget /\ DispatchAlert(a)
    \/ \E a \in AlertIds : PublishBudget /\ DeleteAlert(a)
    \/ \E a \in AlertIds : PublishBudget /\ CreateIncident(a, "d1", "u1", Absent, TRUE)
    \/ \E i \in IncidentIds, status \in {"dispatched", "closed"} :
          PublishBudget /\ UpdateIncidentStatus(i, status, NoTime, TRUE)
    \/ \E i \in IncidentIds : PublishBudget /\ DeleteIncident(i)

SpecPublish == InitPublish /\ [][NextPublish]_vars

\* Triage of the alerts of two stations: alerts are created by station id,
\* get a unit attached by a generic update, and are dispatched, declined or
\* referred while u1 goes on duty.
TriagePatches ==
    {p \in Patches : p.status = Absent /\ ~p.dispatchedAt /\ p.unit = "u1" /\ p.station = Absent}

NextTriage ==
    \/ Budget /\ ActivateUnit("u1")
    \/ \E sid \in {"s1", "s2"} :
          Budget /\ CreateAlert(StationInput(TRUE, TRUE, sid, Null, Null, Null, Null), TRUE, "User")
    \/ \E a \in AlertIds, patch \in TriagePatches : Budget /\ UpdateAlert(a, patch)
    \/ \E a \in AlertIds : Budget /\ DispatchAlert(a)
    \/ \E a \in AlertIds, reason \in Reasons : Budget /\ DeclineAlert(a, reason)
    \/ \E a \in AlertIds, target \in ReferTargets, reason \in Reasons :
          Budget /\ ReferAlert(a, target, reason)

SpecTriage == Init /\ [][NextTriage]_vars

\* Unit duty under the daily schedule: cron.schedule('0 8 * * *') runs the
\* sweep whenever the clock reaches 08:00, and the sweep's saves succeed.
\* The clock moves to a later instant without passing an 08:00.
ClockTick ==
    /\ \E t \in TimePoints :
          /\ t > now
          /\ t % 24 # SweepHour
          /\ ~\E s \in TimePoints : now < s /\ s < t /\ s % 24 = SweepHour
          /\ now' = t
    /\ UNCHANGED <<station, alerts, incidents, units, resp, tasks>>

\* The clock reaches the next 08:00 and the scheduled sweep runs.
CronSweep ==
    /\ \E t \in TimePoints :
          /\ t > now
          /\ t % 24 = SweepHour
          /\ ~\E s \in TimePoints : now < s /\ s < t /\ s % 24 = SweepHour
          /\ now' = t
          /\ LET out == SweepOutcome(units, t, {}) IN
             /\ units' = [u \in Units |->
                             IF u \in out.cleared
                             THEN [units[u] EXCEPT !.isActive = FALSE, !.activatedAt = NoTime]
                             ELSE units[u]]
             /\ resp' = UnitResponse("sweep", Null, 200, "deactivated", Null, NoTime, out.cleared)
    /\ UNCHANGED <<station, alerts, incidents, tasks>>

NextCron ==
    \/ UnitBudget /\ ClockTick
    \/ UnitBudget /\ CronSweep
    \/ \E u \in Units : UnitBudget /\ ActivateUnit(u)
    \/ \E u \in Units : UnitBudget /\ DeactivateUnit(u)

SpecCron == Init /\ [][NextCron]_vars

\* Requests on the alerts of station s1 interleaved at their awaits.  The
\* store before them: u1 on duty since 10:00 of day 0, alert 1 open at s1
\* with u1 attached, alert 2 absent or like alert 1.
AssignedAlert == [AlertDefaults("s1") EXCEPT !.unit = "u1"]

InitRace ==
    /\ station = StationDocs
    /\ alerts \in {[[a \in AlertIds |-> NoDoc] EXCEPT ![1] = AssignedAlert],
                   [a \in AlertIds |-> IF a <= 2 THEN AssignedAlert ELSE NoDoc]}
    /\ incidents = [i \in IncidentIds |-> NoDoc]
    /\ units = [[u \in Units |-> UnitDefaults(UnitDepartment[u])] EXCEPT !["u1"] = OnDuty("u1", 10)]
    /\ now = 10
    /\ resp = NoResp
    /\ tasks = [t \in Tasks |-> Idle]
    /\ steps = 0
    /\ io = "ok"

\* Bodies { status: 'accepted' } and { status: ' Accepted ' }.
AcceptPatches ==
    {p \in Patches : /\ p.status \in {"accepted", " Accepted "} /\ ~p.dispatchedAt
                     /\ p.unit = Absent /\ p.station = Absent}

\* Concurrent generic updates that accept alerts.
NextAccept ==
    \/ \E t \in Tasks, a \in AlertIds, patch \in AcceptPatches : UnitBudget /\ StartUpdate(t, a, patch)
    \/ \E t \in Tasks : UnitBudget /\ FinishUpdate(t)

SpecAccept == InitRace /\ [][NextAccept]_vars

\* Concurrent dispatch, decline and refer requests.
NextRace ==
    \/ \E t \in Tasks, kind \in {"dispatch", "decline", "refer"}, a \in AlertIds :
          UnitBudget /\ StartTriage(t, kind, a, "s2", " no crew ")
    \/ \E t \in Tasks : UnitBudget /\ FinishTriage(t)

SpecRace == InitRace /\ [][NextRace]_vars

\* Unit administration, one request at a time: units change department and
\* go on and off duty.
NextRoster ==
    \/ UnitBudget /\ Tick
    \/ \E u \in Units : UnitBudget /\ ActivateUnit(u)
    \/ \E u \in Units : UnitBudget /\ DeactivateUnit(u)
    \/ \E u \in Units, d \in {Absent} \cup Departments : UnitBudget /\ UpdateUnit(u, d)

SpecRoster == Init /\ [][NextRoster]_vars

\* Sweeps overlapping manual deactivations and fresh activations of units
\* that went on duty earlier.
NextFresh ==
    \/ \E t \in Tasks, u \in Units : UnitBudget /\ StartActivate(t, u)
    \/ \E t \in Tasks : UnitBudget /\ FinishActivate(t)
    \/ \E t \in Tasks, u \in Units : UnitBudget /\ StartDeactivate(t, u)
    \/ \E t \in Tasks : UnitBudget /\ FinishDeactivate(t)
    \/ \E t \in Tasks : UnitBudget /\ StartSweep(t)
    \/ \E t \in Tasks : UnitBudget /\ SweepStep(t)

SpecFresh == InitOverlap /\ [][NextFresh]_vars

\* Unit duty with requests and sweeps run one at a time.
NextDuty ==
    \/ UnitBudget /\ Tick
    \/ \E u \in Units : UnitBudget /\ ActivateUnit(u)
    \/ \E u \in Units : UnitBudget /\ DeactivateUnit(u)
    \/ \E failing \in SaveFailures : UnitBudget /\ AutoDeactivateUnits(failing)

SpecDuty == Init /\ [][NextDuty]_vars

\* ------------------------------------------------------------- properties
\* The terminal-state messages of dispatch, decline and refer that name a
\* flag the alert carries.
TerminalMessages(doc) ==
    {m \in {"already dispatched", "already declined", "already referred"} :
        \/ m = "already dispatched" /\ doc.dispatched
        \/ m = "already declined" /\ doc.declined
        \/ m = "already referred" /\ doc.referred}

\* Rejections that answer a malformed request, whatever the alert's state.
MalformedRequestMessages ==
    {"Decline reason is required", "Refer reason is required", "Station ID is required",
     "Referred station not found"}

\* C1: every stored alert has at most one of the flags dispatched, declined,
\* referred set, whatever sequence of create, update, dispatch, decline and
\* refer requests produced it.
C1_AtMostOneTerminalFlag ==
    \A a \in AlertIds :
        alerts[a].exists =>
            Cardinality({f \in {"dispatched", "declined", "referred"} : alerts[a][f]}) <= 1

\* C2: a dispatch, decline or refer request on an alert that already has one
\* of its three flags set is rejected, its message names a terminal state the
\* alert is in, and the stored alert is unchanged (requests that are
\* themselves malformed are left aside).
C2_TerminalAlertRejectedByName ==
    [][\A a \in AlertIds :
          (/\ alerts[a].exists
           /\ alerts[a].dispatched \/ alerts[a].declined \/ alerts[a].referred
           /\ steps' = steps + 1
           /\ resp'.op \in {"dispatch", "decline", "refer"}
           /\ resp'.target = a
           /\ resp'.message \notin MalformedRequestMessages)
          => /\ resp'.code >= 400
             /\ resp'.message \in TerminalMessages(alerts[a])
             /\ alerts'[a] = alerts[a]]_vars

\* C3: under every interleaving of activate, deactivate and sweep requests
\* no department has more than one unit on duty.
C3_OneActiveUnitPerDepartment ==
    \A d \in Departments : Cardinality(ActiveUnitsOf(d)) <= 1

\* C4: between requests, the stored hasActiveAlert of every station is true
\* exactly when the station has a stored alert of status active or pending.
C4_HasActiveAlertMirrorsOpenAlerts ==
    \A s \in Stations : station[s].hasActiveAlert = HasOpenAlert(alerts, s)

\* C5: between requests, the stored hasActiveIncident of every station is
\* true exactly when the station has a stored incident of status pending,
\* active, dispatched or on_scene.
C5_HasActiveIncidentMirrorsLiveIncidents ==
    \A s \in Stations :
        station[s].hasActiveIncident
            = HasLiveIncident(incidents, s, {"pending", "active", "dispatched", "on_scene"})

\* C6: a successful acceptance (dispatch, or update to status accepted) of an
\* open alert of a station that has a department named like 'operations' with
\* an on-duty unit, when the store accepts the incident, creates exactly one
\* incident: pending, of that alert and
\* station, with such a department and an on-duty unit of it.
C6_AcceptanceCreatesOneIncident ==
    [][\A a \in AlertIds :
          (/\ alerts[a].exists
           /\ alerts[a].status \in {"active", "pending"}
           /\ steps' = steps + 1
           /\ resp'.op \in {"update", "dispatch"}
           /\ resp'.target = a
           /\ resp'.code = 200
           /\ alerts'[a].status = "accepted"
           /\ resp'.logged = {}
           /\ \E d \in Departments :
                 /\ DepartmentStation[d] = alerts[a].station
                 /\ MatchesOperationsRegex(DepartmentName[d])
                 /\ \E u \in Units : units[u].department = d /\ units[u].isActive)
          => \E i \in IncidentIds :
                /\ ~incidents[i].exists
                /\ incidents'[i].exists
                /\ \A j \in IncidentIds \ {i} : incidents'[j] = incidents[j]
                /\ incidents'[i].status = "pending"
                /\ incidents'[i].alertId = a
                /\ incidents'[i].station = alerts[a].station
                /\ DepartmentStation[incidents'[i].departmentOnDuty] = alerts[a].station
                /\ MatchesOperationsRegex(DepartmentName[incidents'[i].departmentOnDuty])
                /\ units[incidents'[i].unitOnDuty].department = incidents'[i].departmentOnDuty
                /\ units[incidents'[i].unitOnDuty].isActive]_vars

\* C7: right after an acceptance has created a pending incident for a
\* station, that station's stored hasActiveIncident is true.
C7_FlagTrueAfterMaterialization ==
    [][\A i \in IncidentIds :
          (/\ ~incidents[i].exists
           /\ incidents'[i].exists
           /\ resp'.op \in {"update", "dispatch"})
          => station'[incidents'[i].station].hasActiveIncident]_vars

\* C8: a creation request naming by id a station stored as out of commission
\* is denied with the out-of-commission error, stores no alert, changes no
\* station document and publishes no event.
C8_OutOfCommissionByIdDenied ==
    [][(/\ steps' = steps + 1
        /\ resp'.op = "create"
        /\ resp'.form = "id"
        /\ resp'.sid \in Stations
        /\ station[resp'.sid].status = "out of commission")
       => /\ resp'.code = 400
          /\ resp'.message = "Cannot create alert: Station is out of commission"
          /\ alerts' = alerts
          /\ station' = station
          /\ resp'.events = {}]_vars

\* C9: whatever form names the station (id, placeId, coordinates, name), no
\* creation stores an alert for a station that is out of commission.
C9_NoAlertForOutOfCommissionStation ==
    [][\A a \in AlertIds :
          (/\ ~alerts[a].exists
           /\ alerts'[a].exists
           /\ resp'.op = "create")
          => station[alerts'[a].station].status # "out of commission"]_vars

\* C10: a creation request for a station whose stored hasActiveIncident is
\* set and that has an incident of status pending, active, dispatched or
\* on_scene is denied with 409 and stores no alert.
C10_BusyStationDenied ==
    [][(/\ steps' = steps + 1
        /\ resp'.op = "create"
        /\ resp'.form = "id"
        /\ resp'.sid \in Stations
        /\ station[resp'.sid].hasActiveIncident
        /\ HasLiveIncident(incidents, resp'.sid, {"pending", "active", "dispatched", "on_scene"}))
       => /\ resp'.code = 409
          /\ alerts' = alerts]_vars

\* C11: the guard's checks are taken in the order commission status, active
\* incident, active alert, and the first that fails decides the denial of a
\* creation by id: an out-of-commission station gives the out-of-commission
\* error; otherwise a set hasActiveIncident with a live incident gives 409;
\* otherwise a set hasActiveAlert with an open alert gives the
\* duplicate-alert error.
C11_FirstFailingCheckDecides ==
    [][(/\ steps' = steps + 1
        /\ resp'.op = "create"
        /\ resp'.form = "id"
        /\ resp'.sid \in Stations)
       => LET s == resp'.sid
              out == station[s].status = "out of commission"
              busy == station[s].hasActiveIncident
                         /\ HasLiveIncident(incidents, s, {"pending", "active", "dispatched"})
              anyLive == station[s].hasActiveIncident
                            /\ HasLiveIncident(incidents, s,
                                   {"pending", "active", "dispatched", "on_scene"})
              dup == station[s].hasActiveAlert /\ HasOpenAlert(alerts, s)
          IN /\ out => resp'.message = "Cannot create alert: Station is out of commission"
             /\ (~out /\ busy) => resp'.code = 409
             /\ (~out /\ ~anyLive /\ dup)
                   => resp'.message = "Cannot create alert: Station already has an active alert"]_vars

\* The operational timestamps of an incident.
OperationalTimestamps == {"dispatchedAt", "arrivedAt", "resolvedAt", "closedAt"}

\* C12: a setStatus call, whatever its status and timestamp override, leaves
\* every operational timestamp that is already set at its value.
C12_TimestampsSetOnce ==
    [][\A i \in IncidentIds :
          (/\ incidents[i].exists
           /\ steps' = steps + 1
           /\ resp'.op = "setStatus"
           /\ resp'.target = i)
          => /\ incidents'[i].exists
             /\ \A f \in OperationalTimestamps :
                   incidents[i][f] # NoTime => incidents'[i][f] = incidents[i][f]]_vars

\* C12 witness: an incident dispatched with an overriding timestamp has
\* since been moved on by a later successful setStatus that stamped the
\* clock's time, and still carries the overriding dispatchedAt.
C12_Witness ==
    \E i \in IncidentIds :
        /\ incidents[i].exists
        /\ incidents[i].dispatchedAt \notin {NoTime, now}
        /\ incidents[i].status = "on_scene"
        /\ incidents[i].arrivedAt = now
        /\ resp.op = "setStatus" /\ resp.target = i /\ resp.code = 200

\* C13: a setStatus call that finds an incident dispatched and leaves it
\* dispatched changes neither its dispatchedAt nor its turnoutSlip, and no
\* setStatus call regenerates or replaces a turnoutSlip that is stored.
C13_DispatchedResendIsNoOp ==
    [][\A i \in IncidentIds :
          (/\ incidents[i].exists
           /\ steps' = steps + 1
           /\ resp'.op = "setStatus"
           /\ resp'.target = i)
          => /\ (incidents[i].status = "dispatched" /\ incidents'[i].status = "dispatched")
                   => /\ incidents'[i].dispatchedAt = incidents[i].dispatchedAt
                      /\ incidents'[i].turnoutSlip = incidents[i].turnoutSlip
             /\ incidents[i].turnoutSlip # NoSlip
                   => incidents'[i].turnoutSlip = incidents[i].turnoutSlip]_vars

\* The forward order of the incident statuses.
StatusRank(st) ==
    CASE st = "pending" -> 1 [] st = "active" -> 2 [] st = "dispatched" -> 3
      [] st = "on_scene" -> 4 [] st = "resolved" -> 5 [] st = "closed" -> 6

\* C14: a setStatus call never moves an incident to a status earlier than
\* the one it has in the order pending < active < dispatched < on_scene <
\* resolved < closed.
C14_StatusOnlyForward ==
    [][\A i \in IncidentIds :
          (/\ incidents[i].exists
           /\ steps' = steps + 1
           /\ resp'.op = "setStatus"
           /\ resp'.target = i
           /\ incidents[i].status \in ValidStatuses
           /\ incidents'[i].status \in ValidStatuses)
          => StatusRank(incidents'[i].status) >= StatusRank(incidents[i].status)]_vars

\* C15: a deactivate request for a unit whose activatedAt is set is rejected
\* before 07:00 of the calendar day after activatedAt, with a response
\* carrying that time and the unit unchanged; at or after that time it
\* succeeds and leaves the unit off duty with activatedAt cleared.
C15_DeactivateThreshold ==
    [][\A u \in Units :
          (/\ steps' = steps + 1
           /\ now' = now
           /\ resp'.op = "deactivate"
           /\ resp'.unit = u
           /\ units[u].activatedAt # NoTime)
          => LET threshold == ((units[u].activatedAt \div 24) + 1) * 24 + 7
             IN IF now < threshold
                THEN /\ resp'.code = 400
                     /\ resp'.time = threshold
                     /\ units' = units
                ELSE /\ resp'.code = 200
                     /\ ~units'[u].isActive
                     /\ units'[u].activatedAt = NoTime]_vars

\* C15 witness: a unit put on duty at 10:00 has just been refused
\* deactivation at 06:00 of the next day and is still on duty.
C15_Witness ==
    /\ resp.op = "deactivate"
    /\ resp.code = 400
    /\ resp.unit \in Units
    /\ now = 30
    /\ resp.time = 31
    /\ units[resp.unit].isActive
    /\ units[resp.unit].activatedAt = 10

C17_SweepClearsExactlyDueUnits ==
    [][(/\ steps' = steps + 1
        /\ now' = now
        /\ resp'.op = "sweep"
        /\ resp'.code = 200)
       => LET due == {u \in Units :
                         /\ units[u].isActive
                         /\ units[u].activatedAt # NoTime
                         /\ now >= ((units[u].activatedAt \div 24) + 1) * 24 + 8}
          IN /\ \A u \in due : ~units'[u].isActive /\ units'[u].activatedAt = NoTime
             /\ \A u \in Units \ due : units'[u] = units[u]
             /\ resp'.list = due]_vars

\* C17 witness: at 08:00 of day 1 the sweep has cleared u1 (on duty since
\* day 0) and listed it, and has left u3 (on duty since 07:00 of day 1) on
\* duty.
C17_Witness ==
    /\ resp.op = "sweep"
    /\ resp.code = 200
    /\ resp.list = {"u1"}
    /\ now = 32
    /\ ~units["u1"].isActive
    /\ units["u1"].activatedAt = NoTime
    /\ units["u3"].isActive
    /\ units["u3"].activatedAt = 31

\* C18: when the save of one unit fails during a sweep, the sweep does not
\* throw and still deactivates the remaining due units: it returns, and at
\* most the one unit whose save failed is left on duty among the due units.
C18_SweepSurvivesOneFailedSave ==
    [][(/\ steps' = steps + 1
        /\ now' = now
        /\ resp'.op = "sweep")
       => LET due == {u \in Units :
                         /\ units[u].isActive
                         /\ units[u].activatedAt # NoTime
                         /\ now >= ((units[u].activatedAt \div 24) + 1) * 24 + 8}
          IN /\ resp'.code = 200
             /\ Cardinality({u \in due : units'[u].isActive}) <= 1]_vars

\* A sweep and a manual deactivation of u are both in flight: the sweep has
\* scanned u as due and the request has read u, and neither has written yet.
SweepOverlapsDeactivate(u) ==
    \E t1 \in Tasks, t2 \in Tasks :
        /\ tasks[t1].kind = "sweep"
        /\ u \in tasks[t1].todo
        /\ tasks[t2].kind = "deactivate"
        /\ tasks[t2].unit = u

AllIdle == \A t \in Tasks : tasks[t].kind = "idle"

\* No unit is on duty with activatedAt set and past its 08:00 threshold.
NothingDue ==
    \A u \in Units :
        ~(/\ units[u].isActive
          /\ units[u].activatedAt # NoTime
          /\ now >= ((units[u].activatedAt \div 24) + 1) * 24 + 8)

\* C19: once a sweep and a manual deactivation of the same due unit overlap,
\* and no activation follows, whenever all requests have finished the unit
\* has isActive false and activatedAt cleared and no unit is due; and a sweep
\* run when all requests have finished and no unit is due changes no unit and
\* reports an empty list.
C19_OverlapConverges ==
    /\ \A u \in Units :
          [](SweepOverlapsDeactivate(u)
             => [](AllIdle => /\ ~units[u].isActive
                              /\ units[u].activatedAt = NoTime
                              /\ NothingDue))
    /\ [][(/\ AllIdle
           /\ NothingDue
           /\ steps' = steps + 1
           /\ tasks' = tasks
           /\ resp'.op = "sweep")
          => /\ units' = units
             /\ resp'.code = 200
             /\ resp'.list = {}]_vars

\* C19 witness: a sweep that scanned u1 as due still has it to save while a
\* manual deactivation that ran in between has already cleared u1.
C19_Witness ==
    /\ \E t \in Tasks : tasks[t].kind = "sweep" /\ "u1" \in tasks[t].todo
    /\ resp.op = "deactivate"
    /\ resp.code = 200
    /\ ~units["u1"].isActive
    /\ units["u1"].activatedAt = NoTime

\* Incident materialization for an alert of station sid fails: the station
\* has no department named like 'operations', or none of them has an on-duty
\* unit, or the save of the incident was rejected.
MaterializationFails(sid, r) ==
    \/ \A d \in Departments :
          (DepartmentStation[d] = sid /\ MatchesOperationsRegex(DepartmentName[d]))
          => ~\E u \in Units : units[u].department = d /\ units[u].isActive
    \/ "incident save error" \in r.logged

\* C20: when an accept request (dispatch, or update to status accepted) moves
\* an alert to accepted and incident materialization fails, the request
\* answers success, the alert is stored with dispatched true and status
\* accepted, and no incident is created.
C20_MaterializationFailureSwallowed ==
    [][\A a \in AlertIds :
          (/\ alerts[a].exists
           /\ alerts[a].status # "accepted"
           /\ steps' = steps + 1
           /\ resp'.op \in {"update", "dispatch"}
           /\ resp'.target = a
           /\ alerts'[a].exists
           /\ alerts'[a].status = "accepted"
           /\ MaterializationFails(alerts[a].station, resp'))
          => /\ resp'.code = 200
             /\ alerts'[a].dispatched
             /\ incidents' = incidents]_vars

\* C21: a lifecycle request handled while the socket server is missing or
\* throws ends with the stored state and the answer that a request handled in
\* the same state with a working socket server ends with; only the published
\* events differ.
C21_PublishFailureInvisible ==
    [][(steps' = steps + 1 /\ io' # "ok")
       => \E st \in {station'}, al \in {alerts'}, inc \in {incidents'}, un \in {units'},
             r \in {resp'} :
             ENABLED (/\ NextPublish
                      /\ io' = "ok"
                      /\ station' = st
                      /\ alerts' = al
                      /\ incidents' = inc
                      /\ units' = un
                      /\ [resp' EXCEPT !.events = {}] = [r EXCEPT !.events = {}])]_vars

\* C21 witness: an update handled while emit throws has accepted an alert and
\* materialized its incident, answered 200 and published nothing.
C21_Witness ==
    /\ io = "throws"
    /\ resp.op = "update"
    /\ resp.code = 200
    /\ resp.events = {}
    /\ alerts[resp.target].exists
    /\ alerts[resp.target].status = "accepted"
    /\ \E i \in IncidentIds : incidents[i].exists /\ incidents[i].alertId = resp.target

\* C22: a dispatch request on an open alert (dispatched, declined and
\* referred all false) that has no unit attached, or whose attached unit is on
\* duty, succeeds and marks the alert dispatched; so an alert as create stores
\* it can be accepted through dispatch.
C22_DispatchWithoutUnitSucceeds ==
    [][\A a \in AlertIds :
          (/\ alerts[a].exists
           /\ ~alerts[a].dispatched
           /\ ~alerts[a].declined
           /\ ~alerts[a].referred
           /\ \/ alerts[a].unit = Null
              \/ units[alerts[a].unit].isActive
           /\ steps' = steps + 1
           /\ resp'.op = "dispatch"
           /\ resp'.target = a)
          => /\ resp'.code = 200
             /\ alerts'[a].dispatched
             /\ alerts'[a].status = "accepted"]_vars

\* C23: a decline request answered "reason required" leaves every alert
\* unchanged; a decline request whose reason passed that check, on an open
\* alert, sets declined, declinedAt and declineReason (the trimmed, non-empty
\* reason) and changes neither dispatched nor referred.
C23_DeclineOpenAlert ==
    [][\A a \in AlertIds :
          (/\ steps' = steps + 1
           /\ resp'.op = "decline"
           /\ resp'.target = a)
          => /\ resp'.message = "Decline reason is required"
                => resp'.code = 400 /\ alerts' = alerts
             /\ (/\ resp'.message # "Decline reason is required"
                 /\ alerts[a].exists
                 /\ ~alerts[a].dispatched
                 /\ ~alerts[a].declined
                 /\ ~alerts[a].referred)
                => /\ resp'.code = 200
                   /\ alerts'[a].declined
                   /\ alerts'[a].declinedAt = now
                   /\ alerts'[a].declineReason \in {"no crew"}
                   /\ ~alerts'[a].dispatched
                   /\ ~alerts'[a].referred]_vars

\* C24: a refer request that succeeds acted on an open alert and named an
\* existing station T other than the alert's station; it sets referred,
\* referredToStation = T and station = T and clears unit and department.  A
\* refer request naming the alert's current station or a station that does
\* not exist is rejected and leaves the alerts unchanged.
C24_ReferMovesAlert ==
    [][\A a \in AlertIds :
          (/\ steps' = steps + 1
           /\ resp'.op = "refer"
           /\ resp'.target = a)
          => /\ resp'.code = 200
                => /\ alerts[a].exists
                   /\ ~alerts[a].dispatched /\ ~alerts[a].declined /\ ~alerts[a].referred
                   /\ resp'.sid \in Stations \ {alerts[a].station}
                   /\ alerts'[a].referred
                   /\ alerts'[a].referredToStation = resp'.sid
                   /\ alerts'[a].station = resp'.sid
                   /\ alerts'[a].unit = Null
                   /\ alerts'[a].department = Null
                   /\ \A b \in AlertIds \ {a} : alerts'[b] = alerts[b]
             /\ (\/ resp'.sid \notin Stations
                 \/ (alerts[a].exists /\ resp'.sid = alerts[a].station))
                => resp'.code # 200 /\ alerts' = alerts]_vars

\* C24 witness: alert 1, created for s1 with u1 attached, has been referred
\* to s2.
C24_Witness ==
    /\ resp.op = "refer"
    /\ resp.code = 200
    /\ resp.target = 1
    /\ resp.sid = "s2"
    /\ alerts[1].referred
    /\ alerts[1].station = "s2"
    /\ alerts[1].referredToStation = "s2"
    /\ alerts[1].unit = Null

\* C25: an update request that moves an alert whose status was not accepted
\* to status accepted leaves it with dispatched true and dispatchedAt set,
\* and materializes an incident for it when every department of its station
\* named like 'operations' has an on-duty unit and the store accepts the
\* incident.
C25_AcceptingUpdateDispatches ==
    [][\A a \in AlertIds :
          (/\ alerts[a].exists
           /\ alerts[a].status # "accepted"
           /\ steps' = steps + 1
           /\ resp'.op = "update"
           /\ resp'.target = a
           /\ resp'.code = 200
           /\ alerts'[a].status = "accepted")
          => /\ alerts'[a].dispatched
             /\ alerts'[a].dispatchedAt # NoTime
             /\ (/\ resp'.logged = {}
                 /\ \E d \in Departments :
                       /\ DepartmentStation[d] = alerts[a].station
                       /\ MatchesOperationsRegex(DepartmentName[d])
                 /\ \A d \in Departments :
                       (/\ DepartmentStation[d] = alerts[a].station
                        /\ MatchesOperationsRegex(DepartmentName[d]))
                       => \E u \in Units : units[u].department = d /\ units[u].isActive)
                => \E i \in IncidentIds :
                      /\ ~incidents[i].exists
                      /\ incidents'[i].exists
                      /\ incidents'[i].alertId = a]_vars

\* C26: the status of every stored alert mirrors its flags: accepted exactly
\* when dispatched, rejected exactly when declined, referred exactly when
\* referred, and active or pending exactly when all three flags are false.
C26_StatusMirrorsFlags ==
    \A a \in AlertIds :
        alerts[a].exists
        => /\ (alerts[a].status = "accepted") <=> alerts[a].dispatched
           /\ (alerts[a].status = "rejected") <=> alerts[a].declined
           /\ (alerts[a].status = "referred") <=> alerts[a].referred
           /\ (alerts[a].status \in {"active", "pending"})
              <=> (~alerts[a].dispatched /\ ~alerts[a].declined /\ ~alerts[a].referred)

\* C27: a setStatus request on a stored incident is accepted, and stores the
\* requested status, if and only if that status is one of pending, active,
\* dispatched, on_scene, resolved, closed, referred; any other value is
\* rejected with a validation error and leaves the incidents unchanged.
C27_SetStatusAcceptsSevenStatuses ==
    [][\A i \in IncidentIds :
          (/\ incidents[i].exists
           /\ alerts[incidents[i].alertId].exists
           /\ steps' = steps + 1
           /\ resp'.op = "setStatus"
           /\ resp'.target = i)
          => IF resp'.status \in {"pending", "active", "dispatched", "on_scene",
                                  "resolved", "closed", "referred"}
             THEN resp'.code = 200 /\ incidents'[i].status = resp'.status
             ELSE resp'.code = 400 /\ incidents' = incidents]_vars

C29_ActivatedAtIffOnDuty ==
    \A u \in Units : (units[u].activatedAt # NoTime) <=> units[u].isActive

C31_OneIncidentPerAcceptedAlert ==
    \A a \in AlertIds :
        Cardinality({i \in IncidentIds : incidents[i].exists /\ incidents[i].alertId = a}) <= 1

\* C32: of two triage requests on the same open alert that both read it
\* before either writes, at most one succeeds: a triage request never
\* completes with success on an alert that already carries the terminal flag
\* of another triage.
C32_AtMostOneTriageSucceeds ==
    [][\A t \in Tasks :
          (/\ tasks[t].kind \in {"dispatch", "decline", "refer"}
           /\ tasks'[t].kind = "idle"
           /\ steps' = steps + 1
           /\ resp'.code = 200)
          => LET doc == alerts[tasks[t].alert]
             IN ~(doc.dispatched \/ doc.declined \/ doc.referred)]_vars

\* C33: with requests run one at a time, no creation by station id is
\* admitted for a station that has an incident in status pending, active,
\* dispatched or on_scene.
C33_NoAlertForBusyStation ==
    [][(/\ steps' = steps + 1
        /\ resp'.op = "create"
        /\ resp'.form = "id"
        /\ resp'.sid \in Stations
        /\ \E i \in IncidentIds :
              /\ incidents[i].exists
              /\ incidents[i].station = resp'.sid
              /\ incidents[i].status \in {"pending", "active", "dispatched", "on_scene"})
       => /\ resp'.code # 201
          /\ \A a \in AlertIds : alerts'[a].exists => alerts[a].exists]_vars

\* C34: in every reachable state an incident in status dispatched has
\* dispatchedAt set, one in on_scene has arrivedAt set, one in resolved has
\* resolvedAt set and one in closed has closedAt set.
C34_StatusHasItsTimestamp ==
    \A i \in IncidentIds :
        incidents[i].exists =>
            /\ incidents[i].status = "dispatched" => incidents[i].dispatchedAt # NoTime
            /\ incidents[i].status = "on_scene" => incidents[i].arrivedAt # NoTime
            /\ incidents[i].status = "resolved" => incidents[i].resolvedAt # NoTime
            /\ incidents[i].status = "closed" => incidents[i].closedAt # NoTime

\* C35: activate never rejects, on its department-name check, a unit of a
\* department that incident materialization selects (name containing
\* 'operations', whatever the case).
C35_SelectedDepartmentCanActivate ==
    [][\A u \in Units :
          (/\ steps' = steps + 1
           /\ now' = now
           /\ resp'.op = "activate"
           /\ resp'.unit = u
           /\ MatchesOperationsRegex(DepartmentName[units[u].department]))
          => resp'.message # "Only Operations department units can be activated"]_vars

\* C38: after any sequence of activate, deactivate and unit update requests
\* run one at a time, no department has two units on duty.
C38_OneOnDutyUnitPerDepartment ==
    \A u \in Units, v \in Units :
        (u # v /\ units[u].isActive /\ units[v].isActive)
        => units[u].department # units[v].department

\* C36: a write of the sweep never turns off a unit whose stored activation
\* has not reached 08:00 of the day after it, whatever deactivate and
\* activate requests ran between the sweep's scan and that write.
C36_SweepSparesFreshActivation ==
    [][\A t \in Tasks, u \in Units :
          (/\ tasks[t].kind = "sweep"
           /\ tasks'[t] # tasks[t]
           /\ units[u].isActive
           /\ ~units'[u].isActive)
          => /\ units[u].activatedAt # NoTime
             /\ now >= ((units[u].activatedAt \div 24) + 1) * 24 + 8]_vars

\* C37: an activate request on a unit that is already on duty leaves the
\* unit's activatedAt unchanged.
C37_ReactivationKeepsActivatedAt ==
    [][\A u \in Units :
          (/\ steps' = steps + 1
           /\ now' = now
           /\ resp'.op = "activate"
           /\ resp'.unit = u
           /\ units[u].isActive)
          => units'[u].activatedAt = units[u].activatedAt]_vars

\* C39: the flag value a lifecycle operation writes on a station is the
\* value a later guard evaluation reads: right after a creation has stored
\* an alert and written hasActiveAlert = true on its station, the guard's
\* read of that station's hasActiveAlert gives true.
C39_WrittenFlagIsReadBack ==
    [][(/\ steps' = steps + 1
        /\ resp'.op = "create"
        /\ resp'.code = 201
        /\ alerts'[resp'.target].exists)
       => StationGetFlag(station'[alerts'[resp'.target].station], "hasActiveAlert")]_vars

====
